---- MODULE Spec2Model ----
(***************************************************************************)
(* Passenger consolidation of scan-go-traveler (src/src/pages/Index.tsx):  *)
(* normalizeName, namesMatch and consolidateData, with the forEach of      *)
(* consolidateData as the state machine.                                   *)
(*                                                                         *)
(* A JavaScript string is a sequence of one-character strings.  The two    *)
(* non-string values a record field can hold are one-element sequences     *)
(* whose element is longer than one character, so that they differ from    *)
(* every string: UNDEFINED (a missing key, undefined or null) and          *)
(* JsNumber (a JSON number delivered where a string was expected).         *)
(***************************************************************************)
EXTENDS Integers, Sequences, FiniteSets, TLC

----------------------------------------------------------------------------
(* Bounds *)

\* longest input list whose forEach is explored
MaxRecords == 3

\* most files held in the three upload lists together
MaxFiles == 2

\* most clicks on the Process button
MaxRuns == 2

\* most drops and removals made while a run is in progress
MaxBusyChanges == 1

----------------------------------------------------------------------------
(* JavaScript values *)

UNDEFINED == <<"undefined">>

JsNumber == <<"number">>

EmptyStr == <<>>

IsNullish(v) == v = UNDEFINED

IsString(v) == v # UNDEFINED /\ v # JsNumber

\* ToBoolean: "", undefined and null are falsy; a non-empty string and the
\* (non-zero) number are truthy
Truthy(v) == v # EmptyStr /\ v # UNDEFINED

\* a || b
OrElse(a, b) == IF Truthy(a) THEN a ELSE b

\* the characters matched by \s and removed by String.prototype.trim
Whitespace == {" ", "\t", "\n"}

UpperLetters ==
  <<"A","B","C","D","E","F","G","H","I","J","K","L","M",
    "N","O","P","Q","R","S","T","U","V","W","X","Y","Z">>

LowerLetters ==
  <<"a","b","c","d","e","f","g","h","i","j","k","l","m",
    "n","o","p","q","r","s","t","u","v","w","x","y","z">>

Range(s) == {s[k] : k \in DOMAIN s}

\* String.prototype.toLowerCase, one character
LowerChar(c) ==
  IF \E k \in DOMAIN UpperLetters : UpperLetters[k] = c
  THEN LowerLetters[CHOOSE k \in DOMAIN UpperLetters : UpperLetters[k] = c]
  ELSE c

ToLowerCase(s) == [k \in DOMAIN s |-> LowerChar(s[k])]

RECURSIVE TrimStart(_)
TrimStart(s) ==
  IF s # <<>> /\ Head(s) \in Whitespace THEN TrimStart(Tail(s)) ELSE s

RECURSIVE TrimEnd(_)
TrimEnd(s) ==
  IF s # <<>> /\ s[Len(s)] \in Whitespace
  THEN TrimEnd(SubSeq(s, 1, Len(s) - 1))
  ELSE s

\* String.prototype.trim
Trim(s) == TrimEnd(TrimStart(s))

\* v?.trim() for a string or nullish v (undefined stays undefined)
OptTrim(v) == IF IsNullish(v) THEN UNDEFINED ELSE Trim(v)

\* String.prototype.split(sep) for a one-character separator: the segments
\* between the separators, empty segments included ("".split(sep) is [""])
RECURSIVE Split(_, _)
Split(s, sep) ==
  IF \E k \in DOMAIN s : s[k] = sep
  THEN LET k == CHOOSE j \in DOMAIN s :
                  s[j] = sep /\ \A h \in 1..(j - 1) : s[h] # sep
       IN <<SubSeq(s, 1, k - 1)>> \o Split(SubSeq(s, k + 1, Len(s)), sep)
  ELSE <<s>>

\* Array.prototype.join(sep) for a one-character separator
RECURSIVE Join(_, _)
Join(words, sep) ==
  IF words = <<>> THEN <<>>
  ELSE IF Len(words) = 1 THEN words[1]
  ELSE words[1] \o <<sep>> \o Join(Tail(words), sep)

\* .replace(/[^a-z\s]/g, '')
IsLetterOrSpace(c) == c \in Range(LowerLetters) \/ c \in Whitespace

StripNonLetters(s) == SelectSeq(s, IsLetterOrSpace)

\* .replace(/\s+/g, ' ')
RECURSIVE CollapseSpaces(_)
CollapseSpaces(s) ==
  IF s = <<>> THEN <<>>
  ELSE IF Head(s) \in Whitespace
       THEN <<" ">> \o CollapseSpaces(TrimStart(s))
       ELSE <<Head(s)>> \o CollapseSpaces(Tail(s))

----------------------------------------------------------------------------
(* normalizeName and namesMatch *)

honorifics ==
  { <<"m","r">>, <<"m","r","s">>, <<"m","s">>, <<"m","i","s","s">>,
    <<"d","r">>, <<"p","r","o","f">>, <<"s","i","r">>,
    <<"m","a","d","a","m">> }

\* parts[1] || parts[0] of name.split('?'), taken when name includes '?'
cleanName(name) ==
  IF \E k \in DOMAIN name : name[k] = "?"
  THEN LET parts == Split(name, "?") IN OrElse(parts[2], parts[1])
  ELSE name

\* while (words.length > 0 && honorifics.includes(words[0])) words.shift()
RECURSIVE ShiftHonorifics(_)
ShiftHonorifics(words) ==
  IF words # <<>> /\ Head(words) \in honorifics
  THEN ShiftHonorifics(Tail(words))
  ELSE words

normalizeName(name) ==
  IF ~Truthy(name) THEN EmptyStr
  ELSE LET normalized ==
             Trim(CollapseSpaces(StripNonLetters(ToLowerCase(cleanName(name)))))
           words == Split(normalized, " ")
       IN Join(ShiftHonorifics(words), " ")

NonEmptyWords(s) == SelectSeq(Split(s, " "), Truthy)

\* words1.filter(word => words2.includes(word))
CommonWords(words1, words2) ==
  LET InWords2(w) == w \in Range(words2) IN SelectSeq(words1, InWords2)

\* namesMatch without the test for an empty normalized name
namesMatchEmptyAllowed(n1, n2) ==
  LET norm1 == normalizeName(n1)
      norm2 == normalizeName(n2)
      words1 == NonEmptyWords(norm1)
      words2 == NonEmptyWords(norm2)
  IN IF norm1 = norm2 THEN TRUE
     ELSE IF words1 = <<>> \/ words2 = <<>> THEN FALSE
     ELSE IF words1[1] # words2[1] THEN FALSE
     ELSE Len(CommonWords(words1, words2)) >= 2

namesMatch(n1, n2) ==
  LET normalized1 == normalizeName(n1)
      normalized2 == normalizeName(n2)
      words1 == NonEmptyWords(normalized1)
      words2 == NonEmptyWords(normalized2)
  IN IF ~Truthy(normalized1) \/ ~Truthy(normalized2) THEN FALSE
     ELSE IF normalized1 = normalized2 THEN TRUE
     ELSE IF words1 = <<>> \/ words2 = <<>> THEN FALSE
     ELSE IF words1[1] # words2[1] THEN FALSE
     ELSE Len(CommonWords(words1, words2)) >= 2

----------------------------------------------------------------------------
(* Records *)

\* first-writer-wins fields of the merge (Index.tsx 153-157)
IdentityFields ==
  <<"passportNumber", "dateOfBirth", "nationality", "passportIssueDate",
    "expiryDate">>

\* last-writer-wins fields of the merge (Index.tsx 158-166)
ItineraryFields ==
  <<"visaType", "flightNumber", "bookingReference", "ticketNumber",
    "departure", "arrival", "transitStop", "seatNumber", "inflightMeal">>

\* the keys of a record the extraction function delivers and the merge reads
Fields ==
  Range(IdentityFields) \cup Range(ItineraryFields) \cup {"name", "documentType"}

----------------------------------------------------------------------------
(* consolidateData: the forEach callback *)

\* the first findIndex (Index.tsx 129-133) that compares the passenger's
\* passport number as it is stored
PassportIndexUntrimmed(passengers, itemPassport) ==
  LET Hit(k) == passengers[k].passportNumber = itemPassport
  IN IF \E k \in DOMAIN passengers : Hit(k)
     THEN CHOOSE k \in DOMAIN passengers : Hit(k) /\ \A h \in 1..(k - 1) : ~Hit(h)
     ELSE 0

\* passengers.findIndex(p => p.passportNumber?.trim() === itemPassport),
\* 0 standing for -1
PassportIndex(passengers, itemPassport) ==
  LET Hit(k) == OptTrim(passengers[k].passportNumber) = itemPassport
  IN IF \E k \in DOMAIN passengers : Hit(k)
     THEN CHOOSE k \in DOMAIN passengers : Hit(k) /\ \A h \in 1..(k - 1) : ~Hit(h)
     ELSE 0

\* the callback of the second findIndex (Index.tsx 137-144)
NameCandidate(p, item, itemPassport) ==
  LET existingPassport == OptTrim(p.passportNumber)
  IN IF Truthy(itemPassport) /\ Truthy(existingPassport)
        /\ itemPassport # existingPassport
     THEN FALSE
     ELSE Truthy(p.name) /\ namesMatch(p.name, item.name)

\* NameIndex taking the last candidate instead of the first
NameIndexLast(passengers, item, itemPassport) ==
  LET Hit(k) == NameCandidate(passengers[k], item, itemPassport)
  IN IF \E k \in DOMAIN passengers : Hit(k)
     THEN CHOOSE k \in DOMAIN passengers :
            Hit(k) /\ \A h \in (k + 1)..Len(passengers) : ~Hit(h)
     ELSE 0

NameIndex(passengers, item, itemPassport) ==
  LET Hit(k) == NameCandidate(passengers[k], item, itemPassport)
  IN IF \E k \in DOMAIN passengers : Hit(k)
     THEN CHOOSE k \in DOMAIN passengers : Hit(k) /\ \A h \in 1..(k - 1) : ~Hit(h)
     ELSE 0

\* ExistingIndex that looks a record up by its passport number also when
\* that number is empty
ExistingIndexNoPassportGuard(passengers, item) ==
  LET itemPassport == OptTrim(item.passportNumber)
      byPassport == PassportIndex(passengers, itemPassport)
  IN IF byPassport = 0 /\ Truthy(OptTrim(item.name))
     THEN NameIndex(passengers, item, itemPassport)
     ELSE byPassport

\* ExistingIndex with the two lookups swapped: the name fallback first
ExistingIndexNameFirst(passengers, item) ==
  LET itemPassport == OptTrim(item.passportNumber)
      byName == IF Truthy(OptTrim(item.name))
                THEN NameIndex(passengers, item, itemPassport)
                ELSE 0
  IN IF byName = 0 /\ Truthy(itemPassport)
     THEN PassportIndex(passengers, itemPassport)
     ELSE byName

\* existingIndex after both lookups (Index.tsx 125-145), 0 standing for -1
ExistingIndex(passengers, item) ==
  LET itemPassport == OptTrim(item.passportNumber)
      byPassport == IF Truthy(itemPassport)
                    THEN PassportIndex(passengers, itemPassport)
                    ELSE 0
  IN IF byPassport = 0 /\ Truthy(OptTrim(item.name))
     THEN NameIndex(passengers, item, itemPassport)
     ELSE byPassport

\* a method call on a value that is neither a string nor nullish is a
\* TypeError: .trim() on item.passportNumber, on item.name (evaluated only
\* when the passport lookup found nothing) and on a passenger's
\* passportNumber, .includes() on a passenger's name in normalizeName
Throws(passengers, item) ==
  \/ ~IsString(item.passportNumber) /\ ~IsNullish(item.passportNumber)
  \/ /\ Truthy(OptTrim(item.passportNumber))
     /\ \E k \in DOMAIN passengers : passengers[k].passportNumber = JsNumber
  \/ LET itemPassport == OptTrim(item.passportNumber)
         byPassport == IF Truthy(itemPassport)
                       THEN PassportIndex(passengers, itemPassport)
                       ELSE 0
     IN /\ byPassport = 0
        /\ \/ item.name = JsNumber
           \/ /\ Truthy(OptTrim(item.name))
              /\ \E k \in DOMAIN passengers :
                    \/ passengers[k].passportNumber = JsNumber
                    \/ passengers[k].name = JsNumber

\* MergeRecord with the first-writer-wins fields written last-writer-wins
MergeRecordIdentityLastWins(existing, item) ==
  [f \in Fields |->
     IF f = "name"
     THEN IF Truthy(existing.passportNumber) THEN existing.name
          ELSE IF Truthy(item.passportNumber) THEN item.name
          ELSE existing.name
     ELSE IF f \in Range(IdentityFields) THEN OrElse(item[f], existing[f])
     ELSE IF f \in Range(ItineraryFields) THEN OrElse(item[f], existing[f])
     ELSE UNDEFINED]

\* MergeRecord with the last-writer-wins fields taken from the record even
\* when the record has them empty
MergeRecordItineraryOverwritten(existing, item) ==
  [f \in Fields |->
     IF f = "name"
     THEN IF Truthy(existing.passportNumber) THEN existing.name
          ELSE IF Truthy(item.passportNumber) THEN item.name
          ELSE existing.name
     ELSE IF f \in Range(IdentityFields) THEN OrElse(existing[f], item[f])
     ELSE IF f \in Range(ItineraryFields) THEN item[f]
     ELSE UNDEFINED]

\* MergeRecord taking the name of any record that carries a passport
\* number, also when the passenger already carries one
MergeRecordItemName(existing, item) ==
  [f \in Fields |->
     IF f = "name"
     THEN IF Truthy(item.passportNumber) THEN item.name ELSE existing.name
     ELSE IF f \in Range(IdentityFields) THEN OrElse(existing[f], item[f])
     ELSE IF f \in Range(ItineraryFields) THEN OrElse(item[f], existing[f])
     ELSE UNDEFINED]

\* the object literal of the merge (Index.tsx 150-167); it has no
\* documentType key, so reading documentType from it gives undefined
MergeRecord(existing, item) ==
  [f \in Fields |->
     IF f = "name"
     THEN IF Truthy(existing.passportNumber) THEN existing.name
          ELSE IF Truthy(item.passportNumber) THEN item.name
          ELSE existing.name
     ELSE IF f \in Range(IdentityFields) THEN OrElse(existing[f], item[f])
     ELSE IF f \in Range(ItineraryFields) THEN OrElse(item[f], existing[f])
     ELSE UNDEFINED]

\* ConsolidateItem that pushes the record also after it has merged it
ConsolidateItemMergeAndPush(passengers, item) ==
  LET existingIndex == ExistingIndex(passengers, item)
  IN IF existingIndex # 0
     THEN Append([passengers EXCEPT
                    ![existingIndex] =
                       MergeRecord(passengers[existingIndex], item)], item)
     ELSE Append(passengers, item)

\* ConsolidateItem putting a new passenger in front (unshift for push)
ConsolidateItemUnshift(passengers, item) ==
  LET existingIndex == ExistingIndex(passengers, item)
  IN IF existingIndex # 0
     THEN [passengers EXCEPT
             ![existingIndex] = MergeRecord(passengers[existingIndex], item)]
     ELSE <<item>> \o passengers

\* one iteration of dataArray.forEach (Index.tsx 123-172) that does not throw
ConsolidateItem(passengers, item) ==
  LET existingIndex == ExistingIndex(passengers, item)
  IN IF existingIndex # 0
     THEN [passengers EXCEPT
             ![existingIndex] = MergeRecord(passengers[existingIndex], item)]
     ELSE Append(passengers, item)

\* consolidateData (Index.tsx 120-175): the passengers returned, and whether
\* the call threw instead of returning
RECURSIVE ConsolidateFrom(_, _)
ConsolidateFrom(passengers, rest) ==
  IF rest = <<>> THEN [threw |-> FALSE, passengers |-> passengers]
  ELSE IF Throws(passengers, Head(rest))
       THEN [threw |-> TRUE, passengers |-> <<>>]
       ELSE ConsolidateFrom(ConsolidateItem(passengers, Head(rest)), Tail(rest))

consolidateData(dataArray) == ConsolidateFrom(<<>>, dataArray)

----------------------------------------------------------------------------
(* The input records the forEach is run on *)

\* names as the OCR service spells them
NameAlBo == <<"A","l"," ","B","o">>

NameAlCy == <<"A","l"," ","C","y">>

NameAlBoCy == <<"A","l"," ","B","o"," ","C","y">>

\* the same person as NameAlBo in ticket spelling: title, capitals, a dot
NameMrAlBo == <<"M","R","."," ","A","L"," "," ","B","O">>

\* NameAlBo with the words in the other order
NameBoAl == <<"B","o"," ","A","l">>

\* shares only the last word with NameAlBo
NameCyBo == <<"C","y"," ","B","o">>

\* one word written twice
NameBoBo == <<"B","o"," ","B","o">>

\* NameAlBo with the title at the end, as passports print it
NameAlBoMrs == <<"A","L"," ","B","O"," ","M","R","S">>

\* a title and nothing else
NameMr == <<"M","r",".">>

\* digits and punctuation only
NameDigits == <<"1","2","-","3">>

\* ticket format "LASTNAME?FIRSTNAME LASTNAME"
NameTicket == <<"B","O","?","A","l"," ","B","o">>

\* the names namesMatch is applied to
Names ==
  { EmptyStr, UNDEFINED, NameAlBo, NameBoAl, NameAlCy, NameAlBoCy, NameCyBo,
    NameBoBo, NameMrAlBo, NameAlBoMrs, NameMr, NameDigits, NameTicket }

PassportP1 == <<"P","1">>

PassportP2 == <<"P","2">>

\* P1 as an OCR result with a trailing blank
PassportP1Blank == <<"P","1"," ">>

\* a passport number field holding only a blank
PassportBlank == <<" ">>

\* the letter that makes the values of two fields differ
FieldTag(f) ==
  CHOOSE c \in Range(LowerLetters) :
    \E k \in 1..Len(IdentityFields \o ItineraryFields) :
      (IdentityFields \o ItineraryFields)[k] = f /\ LowerLetters[k] = c

FieldPos(f) ==
  CHOOSE k \in 1..Len(IdentityFields \o ItineraryFields) :
    (IdentityFields \o ItineraryFields)[k] = f

\* the keys the extraction function always sets (index.ts 169-180); the
\* others are missing from its reply
DeliveredFields ==
  {"documentType", "name", "passportNumber", "dateOfBirth", "nationality",
   "expiryDate", "visaType", "flightNumber", "departure", "arrival"}

\* how the fields other than name and passportNumber are filled:
\*   "blank"  nothing was read: "" for a delivered key, undefined otherwise
\*   "x"      every field read, as "x" followed by the field's letter
\*   "yOdd"   every second field read, as "y" followed by the field's letter
\*   "yEven"  the other fields read
Fillings == {"blank", "x", "yOdd", "yEven"}

FieldValue(filling, f) ==
  LET nothing == IF f \in DeliveredFields THEN EmptyStr ELSE UNDEFINED
  IN CASE filling = "blank" -> nothing
       [] filling = "x" -> <<"x", FieldTag(f)>>
       [] filling = "yOdd" ->
            IF FieldPos(f) % 2 = 1 THEN <<"y", FieldTag(f)>> ELSE nothing
       [] filling = "yEven" ->
            IF FieldPos(f) % 2 = 0 THEN <<"y", FieldTag(f)>> ELSE nothing

DocPassport == <<"P","a","s","s","p","o","r","t">>

DocFlight == <<"F","l","i","g","h","t"," ","T","i","c","k","e","t">>

\* the record the extraction function returns for a document
Record(name, passportNumber, filling) ==
  [f \in Fields |->
     IF f = "name" THEN name
     ELSE IF f = "passportNumber" THEN passportNumber
     ELSE IF f = "documentType"
          THEN IF Truthy(passportNumber) THEN DocPassport ELSE DocFlight
     ELSE FieldValue(filling, f)]

\* records that differ in who they are about: every name with every passport
\* number, a blank passport number, a ticket spelling of a name, a passport
\* number with a trailing blank, missing keys, and malformed (non-string)
\* values
Records ==
  { Record(n, p, "blank") :
      n \in {EmptyStr, NameAlBo, NameAlCy, NameAlBoCy},
      p \in {EmptyStr, PassportP1, PassportP2} }
  \cup { Record(NameAlBo, PassportBlank, "blank"),
         Record(NameMrAlBo, EmptyStr, "blank"),
         Record(NameAlBo, PassportP1Blank, "blank"),
         Record(NameAlBo, UNDEFINED, "blank"),
         Record(UNDEFINED, PassportP1, "blank"),
         Record(JsNumber, EmptyStr, "blank"),
         Record(JsNumber, PassportP1, "blank"),
         Record(NameAlBo, JsNumber, "blank") }

\* records that differ in what was read from the document
FieldRecords ==
  { Record(np[1], np[2], filling) :
      np \in { <<NameAlBo, EmptyStr>>, <<NameAlBo, PassportP1>>,
               <<EmptyStr, PassportP1>>, <<NameAlCy, EmptyStr>> },
      filling \in Fillings }
  \cup { Record(NameAlBo, PassportBlank, "x"),
         Record(NameAlBo, JsNumber, "x") }

----------------------------------------------------------------------------
(* State *)

VARIABLES
  dataArray,   \* the records the forEach has visited, in order
  passengers,  \* the passengers array of consolidateData
  threw,       \* TRUE once the callback has thrown (the call is over)
  sources,     \* history: sources[k] = the indices in dataArray of the
               \* records pushed as or merged into passengers[k], in order
  merged,      \* history: the index of the passenger the last record was
               \* merged into, 0 if it was pushed or nothing was visited
  name1,       \* the arguments of namesMatch
  name2,
  normalized1, \* normalized1 and normalized2 of namesMatch
  normalized2,
  matched,     \* the value namesMatch returned
  compared,    \* TRUE once namesMatch has been applied to name1 and name2
  filesByType, \* useState filesByType: the files of each upload list
  extractedData, \* useState extractedData: the passengers shown
  isProcessing,  \* useState isProcessing
  runs,        \* the calls of handleProcess that have not returned, in
               \* the order of the clicks; for each its snapshot of the
               \* files, the index of the file it is at, what it awaits
               \* ("reading": fileToBase64, "invoking": the OCR call), its
               \* newData, and as history the files it sent
  started,     \* history: the number of clicks on Process
  consolidations, \* history: the number of calls of consolidateData made
                  \* by handleProcess
  busyChanges, \* history: the number of drops and removals made while
               \* isProcessing
  failures,    \* history: the number of OCR calls that returned an error
  dateValue,   \* the argument of formatDate
  date,        \* what new Date(dateValue) gives in the browser
  formatted,   \* the value formatDate returned
  formatDone,  \* TRUE once formatDate has been applied to dateValue
  csvData,     \* csvData of handleExport, UNDEFINED before the export
  cells,       \* history: for each exported row and column, the value
               \* handed to the escape function and the cell it returned
  objects,     \* the objects of the heap a call of consolidateData reads
               \* and creates, objects[id] holding the fields of object id
  inputList,   \* the argument dataArray as the ids of its elements
  passengerList, \* the array passengers as the ids of its elements
  visitedCount,  \* the number of elements the forEach has visited
  aborted,     \* TRUE once the callback has thrown
  request,     \* the body of the request to the extraction function
  apiKey,      \* Deno.env.get("LOVABLE_API_KEY")
  serverStage, \* where the handler stands: "idle", "received", "fetching"
               \* (awaiting the AI gateway), "done" (response returned)
  chosen,      \* documentType and prompt the handler chose
  gateway,     \* history: what the fetch of the AI gateway gave
  response     \* the Response the handler returned

consolidateVars == <<dataArray, passengers, threw, sources, merged>>

namesVars == <<name1, name2, normalized1, normalized2, matched, compared>>

processVars ==
  <<filesByType, extractedData, isProcessing, runs, started, consolidations,
    busyChanges, failures>>

exportVars == <<dateValue, date, formatted, formatDone, csvData, cells>>

heapVars == <<objects, inputList, passengerList, visitedCount, aborted>>

serverVars == <<request, apiKey, serverStage, chosen, gateway, response>>

vars ==
  <<consolidateVars, namesVars, processVars, exportVars, heapVars,
    serverVars>>

InitConsolidate ==
  /\ dataArray = <<>>
  /\ passengers = <<>>
  /\ threw = FALSE
  /\ sources = <<>>
  /\ merged = 0

\* no call of namesMatch under way
IdleNames ==
  /\ name1 = EmptyStr
  /\ name2 = EmptyStr
  /\ normalized1 = EmptyStr
  /\ normalized2 = EmptyStr
  /\ matched = FALSE
  /\ compared = FALSE

\* the page as it is first rendered (Index.tsx 18-24)
InitProcess ==
  /\ filesByType = [passport |-> <<>>, visa |-> <<>>, flight |-> <<>>]
  /\ extractedData = <<>>
  /\ isProcessing = FALSE
  /\ runs = <<>>
  /\ started = 0
  /\ consolidations = 0
  /\ busyChanges = 0
  /\ failures = 0

\* new Date(s) for a string that is not a date
InvalidDate == [valid |-> FALSE]

\* no call of formatDate under way and nothing exported
IdleExport ==
  /\ dateValue = EmptyStr
  /\ date = InvalidDate
  /\ formatted = EmptyStr
  /\ formatDone = FALSE
  /\ csvData = UNDEFINED
  /\ cells = <<>>

\* no call of consolidateData on heap objects under way
IdleHeap ==
  /\ objects = <<>>
  /\ inputList = <<>>
  /\ passengerList = <<>>
  /\ visitedCount = 0
  /\ aborted = FALSE

\* the extraction function has no request
NoRequest ==
  [image |-> EmptyStr, fileName |-> EmptyStr, documentType |-> "passport"]

NoChoice == [documentType |-> EmptyStr, prompt |-> "none"]

NoReply ==
  [fetch |-> "none", ok |-> FALSE, bodyIsJson |-> FALSE, content |-> UNDEFINED]

NoResponse == [status |-> 0, body |-> [error |-> EmptyStr]]

IdleServer ==
  /\ request = NoRequest
  /\ apiKey = UNDEFINED
  /\ serverStage = "idle"
  /\ chosen = NoChoice
  /\ gateway = NoReply
  /\ response = NoResponse

Init ==
  /\ InitConsolidate
  /\ IdleNames
  /\ InitProcess
  /\ IdleExport
  /\ IdleHeap
  /\ IdleServer

CanVisit == ~threw /\ Len(dataArray) < MaxRecords

\* the callback merges item into an existing passenger (Index.tsx 147-167)
MergeItem(item) ==
  LET existingIndex == ExistingIndex(passengers, item)
  IN /\ CanVisit
     /\ ~Throws(passengers, item)
     /\ existingIndex # 0
     /\ dataArray' = Append(dataArray, item)
     /\ passengers' = ConsolidateItem(passengers, item)
     /\ sources' = [sources EXCEPT ![existingIndex] =
                                      Append(@, Len(dataArray) + 1)]
     /\ merged' = existingIndex
     /\ UNCHANGED <<threw, namesVars, processVars, exportVars, heapVars, serverVars>>

\* the callback pushes item as a new passenger (Index.tsx 168-171)
PushItem(item) ==
  /\ CanVisit
  /\ ~Throws(passengers, item)
  /\ ExistingIndex(passengers, item) = 0
  /\ dataArray' = Append(dataArray, item)
  /\ passengers' = ConsolidateItem(passengers, item)
  /\ sources' = Append(sources, <<Len(dataArray) + 1>>)
  /\ merged' = 0
  /\ UNCHANGED <<threw, namesVars, processVars, exportVars, heapVars, serverVars>>

\* the callback throws a TypeError, which ends forEach and consolidateData
ThrowItem(item) ==
  /\ CanVisit
  /\ Throws(passengers, item)
  /\ dataArray' = Append(dataArray, item)
  /\ threw' = TRUE
  /\ merged' = 0
  /\ UNCHANGED <<passengers, sources, namesVars, processVars, exportVars, heapVars, serverVars>>

Next ==
  \E item \in Records :
    \/ MergeItem(item)
    \/ PushItem(item)
    \/ ThrowItem(item)

Spec == Init /\ [][Next]_vars

\* the same forEach over records that differ in their other fields
NextFields ==
  \E item \in FieldRecords :
    \/ MergeItem(item)
    \/ PushItem(item)
    \/ ThrowItem(item)

SpecFields == Init /\ [][NextFields]_vars

\* a name field holding only blanks
NameBlank == <<" ", " ">>

\* records of which the name, the passport number or both are empty, blank
\* or missing, and a malformed one
SparseRecords ==
  { Record(n, p, "blank") :
      n \in {EmptyStr, NameBlank, UNDEFINED, NameAlBo, NameAlCy},
      p \in {EmptyStr, PassportBlank, PassportP1} }
  \cup { Record(NameAlBo, JsNumber, "blank") }

\* the same forEach over records with empty names and passport numbers
NextSparse ==
  \E item \in SparseRecords :
    \/ MergeItem(item)
    \/ PushItem(item)
    \/ ThrowItem(item)

SpecSparse == Init /\ [][NextSparse]_vars

----------------------------------------------------------------------------
(* namesMatch applied to two names, and consolidateData applied to the two  *)
(* passport-less records that carry them                                    *)

InitNames ==
  /\ InitConsolidate
  /\ name1 \in Names
  /\ name2 \in Names
  /\ normalized1 = EmptyStr
  /\ normalized2 = EmptyStr
  /\ matched = FALSE
  /\ compared = FALSE
  /\ InitProcess
  /\ IdleExport
  /\ IdleHeap
  /\ IdleServer

\* namesMatch(name1, name2) (Index.tsx 94-118)
CompareNames ==
  /\ ~compared
  /\ normalized1' = normalizeName(name1)
  /\ normalized2' = normalizeName(name2)
  /\ matched' = namesMatch(name1, name2)
  /\ compared' = TRUE
  /\ UNCHANGED <<name1, name2, consolidateVars, processVars, exportVars, heapVars, serverVars>>

\* the two records with the names name1 and name2 and no passport number
NamePair ==
  <<Record(name1, EmptyStr, "blank"), Record(name2, EmptyStr, "blank")>>

\* consolidateData(NamePair) (Index.tsx 120-175)
ConsolidatePair ==
  /\ compared
  /\ dataArray = <<>>
  /\ dataArray' = NamePair
  /\ passengers' = consolidateData(NamePair).passengers
  /\ threw' = consolidateData(NamePair).threw
  /\ sources' = IF Len(consolidateData(NamePair).passengers) = 1
                THEN <<<<1, 2>>>>
                ELSE <<<<1>>, <<2>>>>
  /\ merged' = IF Len(consolidateData(NamePair).passengers) = 1 THEN 1 ELSE 0
  /\ UNCHANGED <<namesVars, processVars, exportVars, heapVars, serverVars>>

NextNames == CompareNames \/ ConsolidatePair

SpecNames == InitNames /\ [][NextNames]_vars

----------------------------------------------------------------------------
(* The page: the upload lists and handleProcess *)

MimeJpeg == <<"i","m","a","g","e","/","j","p","e","g">>

MimePng == <<"i","m","a","g","e","/","p","n","g">>

MimeWebp == <<"i","m","a","g","e","/","w","e","b","p">>

MimeGif == <<"i","m","a","g","e","/","g","i","f">>

MimePdf == <<"a","p","p","l","i","c","a","t","i","o","n","/","p","d","f">>

MimeImagePrefix == <<"i","m","a","g","e","/">>

\* String.prototype.startsWith
StartsWith(str, prefix) ==
  Len(str) >= Len(prefix) /\ SubSeq(str, 1, Len(prefix)) = prefix

\* the files a user can pick or drop
Files ==
  { [name |-> "a.jpg", type |-> MimeJpeg],
    [name |-> "b.gif", type |-> MimeGif],
    [name |-> "c.pdf", type |-> MimePdf] }

\* what one pick or drop can hold: one or two files
FileBatches == {<<f>> : f \in Files} \cup {<<f, g>> : f \in Files, g \in Files}

\* DocumentType, in the order of Object.entries(filesByType)
DocumentTypes == <<"passport", "visa", "flight">>

\* the records the OCR service answers with
OcrRecords ==
  { Record(NameAlBo, PassportP1, "blank"),
    Record(NameAlCy, EmptyStr, "blank") }

\* data of a successful invoke: a record as data.extractedData, or
\* UNDEFINED for a reply without extractedData
OcrData == OcrRecords \cup {UNDEFINED}

\* getTotalFiles (Index.tsx 60-62)
TotalFiles(fbt) == Len(fbt.passport) + Len(fbt.visa) + Len(fbt.flight)

IsImage(file) == StartsWith(file.type, MimeImagePrefix)

\* handleFilesSelected (Index.tsx 27-51): the new value of filesByType
FilesSelected(fbt, type, newFiles) ==
  LET validFiles == SelectSeq(newFiles, IsImage)
  IN IF validFiles = <<>> THEN fbt
     ELSE [fbt EXCEPT ![type] = @ \o validFiles]

\* the filter of handleDrop (DocumentUpload.tsx 42-44)
DropAccepts(file) == IsImage(file) \/ file.type = MimePdf

\* room for the files of a pick or drop
CanAdd(newFiles) == TotalFiles(filesByType) + Len(newFiles) <= MaxFiles

\* a drop or a removal while a run is in progress is counted
BusyChange ==
  /\ isProcessing => busyChanges < MaxBusyChanges
  /\ busyChanges' = IF isProcessing THEN busyChanges + 1 ELSE busyChanges

\* handleDrop (DocumentUpload.tsx 38-58); a drop is not disabled while
\* processing
HandleDrop(type, files) ==
  /\ CanAdd(files)
  /\ BusyChange
  /\ filesByType' =
       IF SelectSeq(files, DropAccepts) = <<>> THEN filesByType
       ELSE FilesSelected(filesByType, type, SelectSeq(files, DropAccepts))
  /\ UNCHANGED <<extractedData, isProcessing, runs, started, consolidations,
                 failures, consolidateVars, namesVars, exportVars,
                 heapVars, serverVars>>

\* handleFileInput (DocumentUpload.tsx 60-65); the input element is disabled
\* while processing (DocumentUpload.tsx 83)
HandleFileInput(type, files) ==
  /\ ~isProcessing
  /\ CanAdd(files)
  /\ filesByType' = FilesSelected(filesByType, type, files)
  /\ UNCHANGED <<extractedData, isProcessing, runs, started, consolidations,
                 busyChanges, failures,
                 consolidateVars, namesVars, exportVars, heapVars, serverVars>>

\* prev[type].filter((_, i) => i !== index)
RemoveAt(seq, index) ==
  SubSeq(seq, 1, index - 1) \o SubSeq(seq, index + 1, Len(seq))

\* handleRemoveFile (Index.tsx 53-58)
HandleRemoveFile(type, index) ==
  /\ index \in DOMAIN filesByType[type]
  /\ BusyChange
  /\ filesByType' = [filesByType EXCEPT ![type] = RemoveAt(@, index)]
  /\ UNCHANGED <<extractedData, isProcessing, runs, started, consolidations,
                 failures, consolidateVars, namesVars, exportVars,
                 heapVars, serverVars>>

\* the files of the nested for loops, in their order (Index.tsx 194-195)
RECURSIVE EntriesFrom(_, _)
EntriesFrom(fbt, k) ==
  IF k > Len(DocumentTypes) THEN <<>>
  ELSE [j \in DOMAIN fbt[DocumentTypes[k]] |->
          [type |-> DocumentTypes[k], file |-> fbt[DocumentTypes[k]][j]]]
       \o EntriesFrom(fbt, k + 1)

\* Entries with the files of each list in reverse order
EntriesNewestFirst(fbt) ==
  LET entries == EntriesFrom(fbt, 1)
      perType(type) == SelectSeq(entries, LAMBDA e : e.type = type)
      Reverse(seq) == [k \in DOMAIN seq |-> seq[Len(seq) + 1 - k]]
  IN Reverse(perType("passport")) \o Reverse(perType("visa"))
       \o Reverse(perType("flight"))

Entries(fbt) == EntriesFrom(fbt, 1)

\* the Process button is rendered (Index.tsx 442)
ButtonShown ==
  TotalFiles(filesByType) > 0 /\ extractedData = <<>> /\ ~isProcessing

\* a click on Process: handleProcess up to its first await (Index.tsx
\* 177-196)
HandleProcess ==
  /\ ButtonShown
  /\ started < MaxRuns
  /\ TotalFiles(filesByType) # 0
  /\ isProcessing' = TRUE
  /\ runs' = Append(runs, [files |-> Entries(filesByType), pos |-> 1,
                           stage |-> "reading", newData |-> <<>>,
                           sent |-> <<>>, replies |-> <<>>,
                           shown |-> extractedData])
  /\ started' = started + 1
  /\ UNCHANGED <<filesByType, extractedData, consolidations, busyChanges,
                 failures, consolidateVars, namesVars, exportVars,
                 heapVars, serverVars>>

\* fileToBase64 resolves and the OCR call is made (Index.tsx 196-204)
FileRead(r) ==
  /\ r \in DOMAIN runs
  /\ runs[r].stage = "reading"
  /\ runs' = [runs EXCEPT ![r].stage = "invoking",
                          ![r].sent = Append(@, runs[r].files[runs[r].pos])]
  /\ UNCHANGED <<filesByType, extractedData, isProcessing, started,
                 consolidations, busyChanges, failures,
                 consolidateVars, namesVars, exportVars, heapVars, serverVars>>

\* the catch of handleProcess without its finally: isProcessing stays
CaughtWithoutFinally(r) ==
  /\ runs' = RemoveAt(runs, r)
  /\ UNCHANGED <<filesByType, extractedData, isProcessing, started,
                 busyChanges, consolidateVars, namesVars, exportVars,
                 heapVars, serverVars>>

\* catch and finally of handleProcess (Index.tsx 227-236), after which the
\* call returns
Caught(r) ==
  /\ runs' = RemoveAt(runs, r)
  /\ isProcessing' = FALSE
  /\ UNCHANGED <<filesByType, extractedData, started, busyChanges,
                 consolidateVars, namesVars, exportVars, heapVars, serverVars>>

\* fileToBase64 rejects (Index.tsx 247)
FileReadFails(r) ==
  /\ r \in DOMAIN runs
  /\ runs[r].stage = "reading"
  /\ UNCHANGED <<consolidations, failures>>
  /\ Caught(r)

\* the OCR call returns an error, which is thrown (Index.tsx 206)
OcrFails(r) ==
  /\ r \in DOMAIN runs
  /\ runs[r].stage = "invoking"
  /\ failures' = failures + 1
  /\ UNCHANGED consolidations
  /\ Caught(r)

\* newData after if (data?.extractedData) newData.push(data.extractedData)
Pushed(newData, data) ==
  IF data = UNDEFINED THEN newData ELSE Append(newData, data)

\* the OCR call returns data and another file follows (Index.tsx 208-211,
\* 195-196)
OcrReturns(r, data) ==
  /\ r \in DOMAIN runs
  /\ runs[r].stage = "invoking"
  /\ runs[r].pos < Len(runs[r].files)
  /\ runs' = [runs EXCEPT ![r].newData = Pushed(@, data),
                          ![r].replies = Append(@, data),
                          ![r].pos = @ + 1,
                          ![r].stage = "reading"]
  /\ UNCHANGED <<filesByType, extractedData, isProcessing, started,
                 consolidations, busyChanges, failures,
                 consolidateVars, namesVars, exportVars, heapVars, serverVars>>

\* the OCR call of the last file returns data: consolidateData runs and
\* its result is shown (Index.tsx 208-226), or its TypeError is caught
\* (Index.tsx 227-233); finally (Index.tsx 234-236) and return
OcrReturnsLast(r, data) ==
  /\ r \in DOMAIN runs
  /\ runs[r].stage = "invoking"
  /\ runs[r].pos = Len(runs[r].files)
  /\ LET result == consolidateData(Pushed(runs[r].newData, data))
     IN extractedData' =
          IF result.threw THEN extractedData ELSE result.passengers
  /\ consolidations' = consolidations + 1
  /\ runs' = RemoveAt(runs, r)
  /\ isProcessing' = FALSE
  /\ UNCHANGED <<filesByType, started, busyChanges, failures,
                 consolidateVars, namesVars, exportVars, heapVars, serverVars>>

NextProcess ==
  \/ \E type \in Range(DocumentTypes) : \E files \in FileBatches :
       \/ HandleDrop(type, files)
       \/ HandleFileInput(type, files)
  \/ \E type \in Range(DocumentTypes) : \E index \in 1..MaxFiles :
       HandleRemoveFile(type, index)
  \/ HandleProcess
  \/ \E r \in 1..MaxRuns :
       \/ FileRead(r)
       \/ FileReadFails(r)
       \/ OcrFails(r)
       \/ \E data \in OcrData : OcrReturns(r, data) \/ OcrReturnsLast(r, data)

SpecProcess == Init /\ [][NextProcess]_vars

----------------------------------------------------------------------------
(* The export: formatDate, escapeCsvValue, escapeCsvDateValue, handleExport *)

Digits == {"0", "1", "2", "3", "4", "5", "6", "7", "8", "9"}

Letters == Range(UpperLetters) \cup Range(LowerLetters)

\* String(n) for a natural number n
RECURSIVE ToStr(_)
ToStr(n) ==
  LET digit == <<"0", "1", "2", "3", "4", "5", "6", "7", "8", "9">>[(n % 10) + 1]
  IN IF n < 10 THEN <<digit>> ELSE Append(ToStr(n \div 10), digit)

\* padStart(2, '0')
PadStart2(s) == IF Len(s) < 2 THEN <<"0">> \o s ELSE s

\* months (Index.tsx 254)
months ==
  <<<<"J","a","n">>,
    <<"F","e","b">>,
    <<"M","a","r">>,
    <<"A","p","r">>,
    <<"M","a","y">>,
    <<"J","u","n">>,
    <<"J","u","l">>,
    <<"A","u","g">>,
    <<"S","e","p">>,
    <<"O","c","t">>,
    <<"N","o","v">>,
    <<"D","e","c">>>>

\* /^\d{2}-[A-Za-z]{3}-\d{4}$/.test(dateValue) (Index.tsx 257)
IsCanonical(s) ==
  /\ Len(s) = 11
  /\ \A k \in {1, 2, 8, 9, 10, 11} : s[k] \in Digits
  /\ \A k \in {3, 7} : s[k] = "-"
  /\ \A k \in {4, 5, 6} : s[k] \in Letters

\* formatDate (Index.tsx 251-278) that returns '' when parsing fails
formatDateBlankOnFailure(value, parsed) ==
  IF ~Truthy(value) THEN EmptyStr
  ELSE IF IsCanonical(value) THEN value
  ELSE IF parsed.valid
       THEN PadStart2(ToStr(parsed.day)) \o <<"-">> \o months[parsed.month + 1]
            \o <<"-">> \o ToStr(parsed.year)
  ELSE EmptyStr

\* formatDate (Index.tsx 251-278); parsed is what new Date(value) gives:
\* its getDate(), getMonth() and getFullYear() when it is a valid date
formatDate(value, parsed) ==
  IF ~Truthy(value) THEN EmptyStr
  ELSE IF IsCanonical(value) THEN value
  ELSE IF parsed.valid
       THEN PadStart2(ToStr(parsed.day)) \o <<"-">> \o months[parsed.month + 1]
            \o <<"-">> \o ToStr(parsed.year)
  ELSE value

\* stringValue.includes(c)
Includes(s, c) == \E k \in DOMAIN s : s[k] = c

\* replace(/"/g, '""')
RECURSIVE DoubleQuotes(_)
DoubleQuotes(s) ==
  IF s = <<>> THEN <<>>
  ELSE (IF Head(s) = "\"" THEN <<"\"", "\"">> ELSE <<Head(s)>>)
       \o DoubleQuotes(Tail(s))

\* escapeCsvValue (Index.tsx 280-295)
escapeCsvValue(value) ==
  IF ~Truthy(value) THEN EmptyStr
  ELSE IF Includes(value, ",") \/ Includes(value, "\"") \/ Includes(value, "\n")
       THEN <<"\"">> \o DoubleQuotes(value) \o <<"\"">>
  ELSE value

\* escapeCsvDateValue (Index.tsx 298-305)
escapeCsvDateValue(value) ==
  IF ~Truthy(value) THEN EmptyStr
  ELSE <<"=", "\"">> \o DoubleQuotes(value) \o <<"\"">>

\* headers (Index.tsx 308-324)
headers ==
  <<<<"N","a","m","e">>,
    <<"P","a","s","s","p","o","r","t"," ","N","u","m","b","e","r">>,
    <<"D","a","t","e"," ","o","f"," ","B","i","r","t","h">>,
    <<"N","a","t","i","o","n","a","l","i","t","y">>,
    <<"P","a","s","s","p","o","r","t"," ","I","s","s","u","e"," ","D","a","t","e">>,
    <<"P","a","s","s","p","o","r","t"," ","E","x","p","i","r","y"," ","D","a","t","e">>,
    <<"V","i","s","a"," ","T","y","p","e">>,
    <<"F","l","i","g","h","t"," ","N","u","m","b","e","r">>,
    <<"B","o","o","k","i","n","g"," ","R","e","f","e","r","e","n","c","e">>,
    <<"T","i","c","k","e","t"," ","N","u","m","b","e","r">>,
    <<"D","e","p","a","r","t","u","r","e">>,
    <<"A","r","r","i","v","a","l">>,
    <<"T","r","a","n","s","i","t"," ","S","t","o","p">>,
    <<"S","e","a","t"," ","N","u","m","b","e","r">>,
    <<"I","n","f","l","i","g","h","t"," ","M","e","a","l">>>>

\* the keys of the columns of a row, in their order (Index.tsx 332-348)
Columns ==
  <<"name", "passportNumber", "dateOfBirth", "nationality",
    "passportIssueDate", "expiryDate", "visaType", "flightNumber",
    "bookingReference", "ticketNumber", "departure", "arrival",
    "transitStop", "seatNumber", "inflightMeal">>

\* the columns that go through formatDate and escapeCsvDateValue
DateColumns == {"dateOfBirth", "passportIssueDate", "expiryDate"}

\* the value of a column of row that is handed to the escape function;
\* parse[s] is what new Date(s) gives
CellValue(row, f, parse) ==
  IF f \in DateColumns THEN formatDate(row[f], parse[row[f]])
  ELSE IF f \in {"name", "passportNumber", "nationality"} THEN row[f]
  ELSE OrElse(row[f], EmptyStr)

\* the cell of a column of row (Index.tsx 332-348)
Cell(row, f, parse) ==
  IF f \in DateColumns THEN escapeCsvDateValue(CellValue(row, f, parse))
  ELSE escapeCsvValue(CellValue(row, f, parse))

\* the line of a row (Index.tsx 331-349)
RowLine(row, parse) ==
  Join([k \in DOMAIN Columns |-> Cell(row, Columns[k], parse)], ",")

\* csvData (Index.tsx 329-350)
CsvData(data, parse) ==
  Join(<<Join([k \in DOMAIN headers |-> escapeCsvValue(headers[k])], ",")>>
       \o [r \in DOMAIN data |-> RowLine(data[r], parse)], "\n")

\* date strings an extracted record can hold
DateCanonical == <<"1","5","-","M","a","r","-","1","9","9","0">>

DateIso == <<"1","9","9","0","-","0","3","-","1","5">>

DateSlashes == <<"3","/","4","/","2","1">>

DateUnreadable == <<"n","/","a",","," ","t","o","r","n">>

DateInQuotes == <<"\"","s","o","o","n","\"">>

DateValues ==
  {UNDEFINED, EmptyStr, DateCanonical, DateIso, DateSlashes, DateUnreadable,
   DateInQuotes}

\* local dates new Date can give for the date strings
ValidDate(day, month, year) ==
  [valid |-> TRUE, day |-> day, month |-> month, year |-> year]

\* what new Date(s) can give: for the ISO date the day before or the day
\* itself, by the time zone; Invalid Date for a string without a digit; for
\* any other string whatever the browser's parser makes of it
DateParse(s) ==
  IF s = DateIso THEN {ValidDate(14, 2, 1990), ValidDate(15, 2, 1990)}
  ELSE IF ~Truthy(s) \/ \A k \in DOMAIN s : s[k] \notin Digits
       THEN {InvalidDate}
  ELSE {InvalidDate, ValidDate(4, 2, 2021), ValidDate(3, 3, 2021),
        ValidDate(15, 2, 1990)}

\* the Date parsers of the browsers
DateParsers == {parse \in [DateValues -> UNION {DateParse(s) : s \in DateValues}] :
                  \A s \in DateValues : parse[s] \in DateParse(s)}

\* names with the characters the CSV escape is about
NameComma == <<"B","o",","," ","A","l">>

NameQuoted == <<"A","l"," ","\"","B","o","\"">>

NameTwoLines == <<"A","l","\n","B","o">>

\* a consolidated record with a name and dates
ExportRow(name, dateOfBirth, expiryDate, filling) ==
  [Record(name, PassportP1, filling) EXCEPT
     !.dateOfBirth = dateOfBirth,
     !.passportIssueDate = UNDEFINED,
     !.expiryDate = expiryDate]

\* the tables shown when Export is clicked
ExportTables ==
  {<<ExportRow(name, dateOfBirth, EmptyStr, "blank")>> :
     name \in {NameAlBo, NameComma, NameQuoted, NameTwoLines},
     dateOfBirth \in DateValues}
  \cup {<<ExportRow(NameAlBo, DateIso, DateSlashes, "x"),
          ExportRow(NameComma, DateCanonical, DateCanonical, "yOdd")>>}

\* a table is shown, and formatDate is about to be applied to a date string
InitExport ==
  /\ InitConsolidate
  /\ IdleNames
  /\ filesByType = [passport |-> <<>>, visa |-> <<>>, flight |-> <<>>]
  /\ extractedData \in ExportTables
  /\ isProcessing = FALSE
  /\ runs = <<>>
  /\ started = 0
  /\ consolidations = 0
  /\ busyChanges = 0
  /\ failures = 0
  /\ dateValue \in DateValues
  /\ date \in DateParse(dateValue)
  /\ formatted = EmptyStr
  /\ formatDone = FALSE
  /\ csvData = UNDEFINED
  /\ cells = <<>>
  /\ IdleHeap
  /\ IdleServer

\* formatDate(dateValue) (Index.tsx 251-278)
FormatDate ==
  /\ ~formatDone
  /\ formatted' = formatDate(dateValue, date)
  /\ formatDone' = TRUE
  /\ UNCHANGED <<dateValue, date, csvData, cells, consolidateVars, namesVars,
                 processVars, heapVars, serverVars>>

\* a click on Export to CSV (DocumentPreview.tsx 129-134): handleExport
\* (Index.tsx 307-364) in a browser whose Date parser is parse
HandleExport(parse) ==
  /\ Len(extractedData) > 0
  /\ csvData = UNDEFINED
  /\ csvData' = CsvData(extractedData, parse)
  /\ cells' = [r \in DOMAIN extractedData |->
                 [k \in DOMAIN Columns |->
                    [value |-> CellValue(extractedData[r], Columns[k], parse),
                     cell |-> Cell(extractedData[r], Columns[k], parse)]]]
  /\ UNCHANGED <<dateValue, date, formatted, formatDone, consolidateVars,
                 namesVars, processVars, heapVars, serverVars>>

NextExport ==
  \/ FormatDate
  \/ \E parse \in DateParsers : HandleExport(parse)

SpecExport == InitExport /\ [][NextExport]_vars

----------------------------------------------------------------------------
(* consolidateData on objects: which object each array element is *)

\* the records of the argument
HeapRecords ==
  { Record(NameAlBo, PassportP1, "yOdd"),
    Record(NameAlBo, PassportP1, "yEven"),
    Record(NameAlCy, PassportP2, "x"),
    Record(NameAlBo, JsNumber, "blank") }

\* the arguments: one to MaxRecords records
HeapInputs == UNION {[1..n -> HeapRecords] : n \in 1..MaxRecords}

\* consolidateData is called with an array of objects (Index.tsx 120-121)
InitHeap ==
  /\ InitConsolidate
  /\ IdleNames
  /\ InitProcess
  /\ IdleExport
  /\ objects \in HeapInputs
  /\ inputList = [k \in DOMAIN objects |-> k]
  /\ passengerList = <<>>
  /\ visitedCount = 0
  /\ aborted = FALSE
  /\ IdleServer

\* the objects an array of ids refers to
Deref(objs, list) == [k \in DOMAIN list |-> objs[list[k]]]

\* one iteration of the forEach that merges in place and pushes the
\* element itself: Object.assign(existing, ...) and passengers.push(item)
ConsolidateRefInPlace(objs, plist, ref) ==
  LET item == objs[ref]
      existingIndex == ExistingIndex(Deref(objs, plist), item)
  IN IF existingIndex # 0
     THEN [objects |->
             [objs EXCEPT ![plist[existingIndex]] =
                             MergeRecord(objs[plist[existingIndex]], item)],
           passengerList |-> plist]
     ELSE [objects |-> objs, passengerList |-> Append(plist, ref)]

\* one iteration of the forEach (Index.tsx 123-172) on the element with id
\* ref: the merge assigns a new object literal to passengers[existingIndex]
\* (149-167), the push appends the new object { ...item } (170)
ConsolidateRef(objs, plist, ref) ==
  LET item == objs[ref]
      existingIndex == ExistingIndex(Deref(objs, plist), item)
  IN IF existingIndex # 0
     THEN [objects |->
             Append(objs, MergeRecord(objs[plist[existingIndex]], item)),
           passengerList |-> [plist EXCEPT ![existingIndex] = Len(objs) + 1]]
     ELSE [objects |-> Append(objs, item),
           passengerList |-> Append(plist, Len(objs) + 1)]

\* the element the forEach visits next
NextRef == inputList[visitedCount + 1]

CanVisitRef == ~aborted /\ visitedCount < Len(inputList)

\* the callback merges the element into a passenger
VisitMerge ==
  /\ CanVisitRef
  /\ ~Throws(Deref(objects, passengerList), objects[NextRef])
  /\ ExistingIndex(Deref(objects, passengerList), objects[NextRef]) # 0
  /\ objects' = ConsolidateRef(objects, passengerList, NextRef).objects
  /\ passengerList' =
       ConsolidateRef(objects, passengerList, NextRef).passengerList
  /\ visitedCount' = visitedCount + 1
  /\ UNCHANGED <<inputList, aborted, consolidateVars, namesVars, processVars,
                 exportVars, serverVars>>

\* the callback pushes a copy of the element
VisitPush ==
  /\ CanVisitRef
  /\ ~Throws(Deref(objects, passengerList), objects[NextRef])
  /\ ExistingIndex(Deref(objects, passengerList), objects[NextRef]) = 0
  /\ objects' = ConsolidateRef(objects, passengerList, NextRef).objects
  /\ passengerList' =
       ConsolidateRef(objects, passengerList, NextRef).passengerList
  /\ visitedCount' = visitedCount + 1
  /\ UNCHANGED <<inputList, aborted, consolidateVars, namesVars, processVars,
                 exportVars, serverVars>>

\* the callback throws a TypeError
VisitThrows ==
  /\ CanVisitRef
  /\ Throws(Deref(objects, passengerList), objects[NextRef])
  /\ visitedCount' = visitedCount + 1
  /\ aborted' = TRUE
  /\ UNCHANGED <<objects, inputList, passengerList, consolidateVars,
                 namesVars, processVars, exportVars, serverVars>>

NextHeap == VisitMerge \/ VisitPush \/ VisitThrows

SpecHeap == InitHeap /\ [][NextHeap]_vars

----------------------------------------------------------------------------
(* The extraction function: the handler of extract-document-data *)

DocVisa == <<"V","i","s","a">>

DocUnknown == <<"U","n","k","n","o","w","n">>

\* str.includes(text)
IncludesText(str, text) ==
  \E i \in 1..(Len(str) - Len(text) + 1) :
    SubSeq(str, i, i + Len(text) - 1) = text

\* documentType and prompt by the file name (index.ts 23-116)
ChooseByFileName(fileName) ==
  LET lowerFileName == ToLowerCase(fileName)
  IN IF IncludesText(lowerFileName, <<"p","a","s","s","p","o","r","t">>)
     THEN [documentType |-> DocPassport, prompt |-> "passport"]
     ELSE IF IncludesText(lowerFileName, <<"v","i","s","a">>)
     THEN [documentType |-> DocVisa, prompt |-> "visa"]
     ELSE IF \/ IncludesText(lowerFileName, <<"f","l","i","g","h","t">>)
             \/ IncludesText(lowerFileName, <<"t","i","c","k","e","t">>)
     THEN [documentType |-> DocFlight, prompt |-> "flight"]
     ELSE [documentType |-> DocUnknown, prompt |-> "any"]

\* the names of uploaded files
UploadNames ==
  { <<"a",".","j","p","g">>,
    <<"P","a","s","s","p","o","r","t","1",".","j","p","g">>,
    <<"m","y","_","v","i","s","a",".","p","n","g">>,
    <<"t","i","c","k","e","t",".","j","p","g">> }

\* a DocumentType as the characters of a template literal
TypeText(type) ==
  CASE type = "passport" -> <<"p","a","s","s","p","o","r","t">>
    [] type = "visa" -> <<"v","i","s","a">>
    [] type = "flight" -> <<"f","l","i","g","h","t">>

\* what fileToBase64 gives: nothing for an empty file
Base64Images == {EmptyStr, <<"Q","U","J","D">>}

\* the body handleProcess sends for a file of a list (Index.tsx 198-204)
ClientRequest(type, name, base64) ==
  [image |-> base64,
   fileName |-> TypeText(type) \o <<"-">> \o name,
   documentType |-> type]

Requests ==
  {ClientRequest(type, name, base64) :
     type \in Range(DocumentTypes), name \in UploadNames,
     base64 \in Base64Images}

ApiKey == <<"k","e","y">>

\* the contents of the AI's message
ContentFull == <<"{","\"","n","a","m","e","\"",":","\"","A","l"," ","B","o","\"",",",
    "\"","p","a","s","s","p","o","r","t","N","u","m","b","e","r","\"",
    ":","\"","P","1","\"","}">>

\* the character ` (a TLA+ string cannot hold it)
Backtick == "backtick"

Fence == <<Backtick, Backtick, Backtick>>

ContentFenced ==
  Fence \o <<"j","s","o","n","\n">> \o ContentFull \o <<"\n">> \o Fence

ContentNumber == <<"{","\"","n","a","m","e","\"",":","\"","A","l"," ","B","o","\"",",",
    "\"","p","a","s","s","p","o","r","t","N","u","m","b","e","r","\"",
    ":","1","2","}">>

ContentEmptyObject == <<"{","}">>

ContentNull == <<"n","u","l","l">>

ContentProse == <<"I"," ","c","a","n","n","o","t"," ","r","e","a","d"," ","i","t">>

Contents ==
  {UNDEFINED, EmptyStr, ContentFull, ContentFenced, ContentNumber,
   ContentEmptyObject, ContentNull, ContentProse}

\* what the fetch of the AI gateway can give: a rejection, a non-success
\* status, a body that is not JSON, or a body with (or without) a content
GatewayReplies ==
  { [fetch |-> "rejected", ok |-> FALSE, bodyIsJson |-> FALSE,
     content |-> UNDEFINED],
    [fetch |-> "answered", ok |-> FALSE, bodyIsJson |-> TRUE,
     content |-> UNDEFINED],
    [fetch |-> "answered", ok |-> TRUE, bodyIsJson |-> FALSE,
     content |-> UNDEFINED] }
  \cup { [fetch |-> "answered", ok |-> TRUE, bodyIsJson |-> TRUE,
          content |-> c] : c \in Contents }

\* the keys the AI is asked for (index.ts 50, 74, 97)
AiKeys ==
  {"name", "passportNumber", "dateOfBirth", "nationality", "expiryDate",
   "visaType", "flightNumber", "departure", "arrival"}

\* an object with a name and a passport number, reading any other key of
\* it gives undefined
AiObject(name, passportNumber) ==
  [f \in AiKeys |->
     IF f = "name" THEN name
     ELSE IF f = "passportNumber" THEN passportNumber
     ELSE UNDEFINED]

JsNull == <<"null">>

\* text.replace(pattern followed by an optional newline, globally, "")
RECURSIVE RemoveAll(_, _)
RemoveAll(text, pattern) ==
  IF text = <<>> THEN <<>>
  ELSE IF StartsWith(text, pattern)
       THEN LET rest == SubSeq(text, Len(pattern) + 1, Len(text))
            IN RemoveAll(IF rest # <<>> /\ Head(rest) = "\n"
                         THEN Tail(rest) ELSE rest, pattern)
  ELSE <<Head(text)>> \o RemoveAll(Tail(text), pattern)

\* jsonStr (index.ts 158)
StripFences(content) ==
  Trim(RemoveAll(RemoveAll(content, Fence \o <<"j","s","o","n">>), Fence))

\* JSON.parse on the texts the contents give: the value, or a SyntaxError
JsonParse(jsonStr) ==
  CASE jsonStr = ContentFull ->
         [threw |-> FALSE, value |-> AiObject(NameAlBo, PassportP1)]
    [] jsonStr = ContentNumber ->
         [threw |-> FALSE, value |-> AiObject(NameAlBo, JsNumber)]
    [] jsonStr = ContentEmptyObject ->
         [threw |-> FALSE, value |-> AiObject(UNDEFINED, UNDEFINED)]
    [] jsonStr = ContentNull -> [threw |-> FALSE, value |-> JsNull]
    [] OTHER -> [threw |-> TRUE, value |-> JsNull]

\* the messages of the errors
MessageNoImage == <<"N","o"," ","i","m","a","g","e"," ","d","a","t","a"," ","p","r","o",
    "v","i","d","e","d">>

MessageNoKey == <<"L","O","V","A","B","L","E","_","A","P","I","_","K","E","Y"," ","n",
    "o","t"," ","c","o","n","f","i","g","u","r","e","d">>

MessageFetch == <<"f","e","t","c","h"," ","f","a","i","l","e","d">>

MessageGateway == <<"A","I"," ","G","a","t","e","w","a","y"," ","e","r","r","o","r",":",
    " ","4","2","9">>

MessageBody == <<"U","n","e","x","p","e","c","t","e","d"," ","t","o","k","e","n">>

MessageNoContent == <<"N","o"," ","r","e","s","p","o","n","s","e"," ","f","r","o","m"," ",
    "A","I">>

MessageParse == <<"F","a","i","l","e","d"," ","t","o"," ","p","a","r","s","e"," ","e",
    "x","t","r","a","c","t","e","d"," ","d","a","t","a">>

MessageNull == <<"C","a","n","n","o","t"," ","s","e","t"," ","p","r","o","p","e","r",
    "t","i","e","s"," ","o","f"," ","n","u","l","l">>

Thrown(message) == [threw |-> TRUE, message |-> message]

\* completeData (index.ts 166-180)
CompleteData(parsed, documentType) ==
  [f \in AiKeys \cup {"documentType"} |->
     IF f = "documentType" THEN OrElse(documentType, DocUnknown)
     ELSE OrElse(parsed[f], EmptyStr)]

\* the try block after the fetch that answers a content it cannot parse
\* with the defaults of completeData
AfterFetchDefaultsWhenUnparsable(reply, documentType) ==
  IF reply.fetch = "rejected" THEN Thrown(MessageFetch)
  ELSE IF ~reply.ok THEN Thrown(MessageGateway)
  ELSE IF ~reply.bodyIsJson THEN Thrown(MessageBody)
  ELSE IF ~Truthy(reply.content) THEN Thrown(MessageNoContent)
  ELSE IF JsonParse(StripFences(reply.content)).threw
       THEN [threw |-> FALSE,
             data |-> CompleteData(AiObject(UNDEFINED, UNDEFINED),
                                   documentType)]
  ELSE IF JsonParse(StripFences(reply.content)).value = JsNull
       THEN Thrown(MessageNull)
  ELSE [threw |-> FALSE,
        data |-> CompleteData(JsonParse(StripFences(reply.content)).value,
                              documentType)]

\* the try block from the fetch on (index.ts 118-180): the error thrown,
\* or completeData
AfterFetch(reply, documentType) ==
  IF reply.fetch = "rejected" THEN Thrown(MessageFetch)
  ELSE IF ~reply.ok THEN Thrown(MessageGateway)
  ELSE IF ~reply.bodyIsJson THEN Thrown(MessageBody)
  ELSE IF ~Truthy(reply.content) THEN Thrown(MessageNoContent)
  ELSE IF JsonParse(StripFences(reply.content)).threw
       THEN Thrown(MessageParse)
  ELSE IF JsonParse(StripFences(reply.content)).value = JsNull
       THEN Thrown(MessageNull)
  ELSE [threw |-> FALSE,
        data |-> CompleteData(JsonParse(StripFences(reply.content)).value,
                              documentType)]

\* the Response of the catch (index.ts 185-195)
ErrorResponse(message) == [status |-> 500, body |-> [error |-> message]]

\* the Response of the try block (index.ts 182-184), or of the catch
Respond(result) ==
  IF result.threw THEN ErrorResponse(result.message)
  ELSE [status |-> 200, body |-> [extractedData |-> result.data]]

\* a request of handleProcess has arrived
InitServer ==
  /\ InitConsolidate
  /\ IdleNames
  /\ InitProcess
  /\ IdleExport
  /\ IdleHeap
  /\ request \in Requests
  /\ apiKey \in {UNDEFINED, ApiKey}
  /\ serverStage = "received"
  /\ chosen = NoChoice
  /\ gateway = NoReply
  /\ response = NoResponse

\* the handler throws before the fetch (index.ts 12-21) and the catch
\* answers
RejectRequest ==
  /\ serverStage = "received"
  /\ ~Truthy(request.image) \/ ~Truthy(apiKey)
  /\ response' = ErrorResponse(IF ~Truthy(request.image) THEN MessageNoImage
                               ELSE MessageNoKey)
  /\ serverStage' = "done"
  /\ UNCHANGED <<request, apiKey, chosen, gateway, consolidateVars,
                 namesVars, processVars, exportVars, heapVars>>

\* the handler chooses documentType and prompt and calls the AI gateway
\* (index.ts 23-139)
CallGateway ==
  /\ serverStage = "received"
  /\ Truthy(request.image)
  /\ Truthy(apiKey)
  /\ chosen' = ChooseByFileName(request.fileName)
  /\ serverStage' = "fetching"
  /\ UNCHANGED <<request, apiKey, gateway, response, consolidateVars,
                 namesVars, processVars, exportVars, heapVars>>

\* the fetch settles and the handler returns its Response (index.ts
\* 139-195)
GatewayAnswers(reply) ==
  /\ serverStage = "fetching"
  /\ gateway' = reply
  /\ response' = Respond(AfterFetch(reply, chosen.documentType))
  /\ serverStage' = "done"
  /\ UNCHANGED <<request, apiKey, chosen, consolidateVars, namesVars,
                 processVars, exportVars, heapVars>>

NextServer ==
  \/ RejectRequest
  \/ CallGateway
  \/ \E reply \in GatewayReplies : GatewayAnswers(reply)

SpecServer == InitServer /\ [][NextServer]_vars

----------------------------------------------------------------------------
(* Properties of consolidateData *)

\* the record the forEach visited last
LastItem == dataArray[Len(dataArray)]

\* a record was visited in this step and the callback returned
Visited == dataArray' # dataArray /\ ~threw'

\* C1: no passenger has two contributing input records whose trimmed
\* passport numbers are both non-empty and different from each other.
C1_NeverMergesDistinctPassports ==
  \A k \in DOMAIN sources :
    \A i \in Range(sources[k]) : \A j \in Range(sources[k]) :
      LET a == OptTrim(dataArray[i].passportNumber)
          b == OptTrim(dataArray[j].passportNumber)
      IN ~(Truthy(a) /\ Truthy(b) /\ a # b)

\* C2: a visited record whose trimmed passport number is non-empty and
\* equals the trimmed passport number of passenger k is merged into
\* passenger k (the callback does not throw, no passenger is added, the
\* other passengers are left alone), whatever the names are.
C2_PassportMatchMerges ==
  [][dataArray' # dataArray =>
       LET item == dataArray'[Len(dataArray')]
           itemPassport == OptTrim(item.passportNumber)
       IN \A k \in DOMAIN passengers :
            (/\ IsString(item.passportNumber)
             /\ Truthy(itemPassport)
             /\ OptTrim(passengers[k].passportNumber) = itemPassport)
            => /\ ~threw'
               /\ merged' = k
               /\ sources' = [sources EXCEPT ![k] = Append(@, Len(dataArray'))]
               /\ Len(passengers') = Len(passengers)
               /\ \A h \in DOMAIN passengers :
                    h # k => passengers'[h] = passengers[h]
               /\ passengers'[k] = MergeRecord(passengers[k], item)]_vars

\* C2 witness: the last record went by its passport number into the second
\* passenger, whose name it does not match, although the first passenger
\* matches it by name and has no passport number that would exclude it.
C2_Witness ==
  /\ merged = 2
  /\ Truthy(OptTrim(LastItem.passportNumber))
  /\ OptTrim(passengers[2].passportNumber) = OptTrim(LastItem.passportNumber)
  /\ ~namesMatch(passengers[2].name, LastItem.name)
  /\ ~Truthy(OptTrim(passengers[1].passportNumber))
  /\ namesMatch(passengers[1].name, LastItem.name)

\* C3: consolidateData run on its own output returns that output.
C3_Idempotent ==
  ~threw => consolidateData(passengers) = [threw |-> FALSE, passengers |-> passengers]

\* C4: a merge leaves no field of the matched passenger empty that held a
\* non-empty value before the merge, documentType included.
C4_MergeDeletesNoField ==
  [][(Visited /\ merged' # 0) =>
       \A f \in Fields :
         Truthy(passengers[merged'][f]) => Truthy(passengers'[merged'][f])]_vars

SetMin(S) == CHOOSE x \in S : \A y \in S : x <= y

SetMax(S) == CHOOSE x \in S : \A y \in S : x >= y

\* the contributing records of passenger k whose field f is non-empty
NonEmptySources(k, f) == {i \in Range(sources[k]) : Truthy(dataArray[i][f])}

\* C5: each first-writer-wins field of a passenger holds the value of the
\* earliest contributing record in which the field is non-empty, and is
\* empty only if it is empty in every contributing record.
C5_IdentityFieldsFirstWriterWins ==
  \A k \in DOMAIN passengers : \A f \in Range(IdentityFields) :
    IF NonEmptySources(k, f) = {}
    THEN ~Truthy(passengers[k][f])
    ELSE passengers[k][f] = dataArray[SetMin(NonEmptySources(k, f))][f]

\* C5 witness: a passenger of three records whose first record has some
\* first-writer-wins field empty and whose second and third records hold
\* different non-empty values in it.
C5_Witness ==
  \E k \in DOMAIN passengers : \E f \in Range(IdentityFields) :
    /\ Len(sources[k]) = 3
    /\ ~Truthy(dataArray[sources[k][1]][f])
    /\ Truthy(dataArray[sources[k][2]][f])
    /\ Truthy(dataArray[sources[k][3]][f])
    /\ dataArray[sources[k][2]][f] # dataArray[sources[k][3]][f]

\* C6: each last-writer-wins field of a passenger holds the value of the
\* latest contributing record in which the field is non-empty, and is
\* empty only if it is empty in every contributing record.
C6_ItineraryFieldsLastWriterWins ==
  \A k \in DOMAIN passengers : \A f \in Range(ItineraryFields) :
    IF NonEmptySources(k, f) = {}
    THEN ~Truthy(passengers[k][f])
    ELSE passengers[k][f] = dataArray[SetMax(NonEmptySources(k, f))][f]

\* C6 witness: a passenger of three records whose first two records hold
\* different non-empty values in some last-writer-wins field and whose
\* third record has it empty.
C6_Witness ==
  \E k \in DOMAIN passengers : \E f \in Range(ItineraryFields) :
    /\ Len(sources[k]) = 3
    /\ Truthy(dataArray[sources[k][1]][f])
    /\ Truthy(dataArray[sources[k][2]][f])
    /\ dataArray[sources[k][1]][f] # dataArray[sources[k][2]][f]
    /\ ~Truthy(dataArray[sources[k][3]][f])

\* the contributing records of passenger k that carry a passport number
PassportSources(k) == NonEmptySources(k, "passportNumber")

\* C7: on a merge the passenger keeps its name if it carries a passport
\* number, else takes the record's name if the record carries one, else
\* keeps its name; and the name of a passenger with a contributing record
\* that carries a passport number is the name of the first such record.
C7_NameOfFirstPassportRecord ==
  /\ [][(Visited /\ merged' # 0) =>
          LET existing == passengers[merged']
              item == dataArray'[Len(dataArray')]
          IN passengers'[merged'].name =
               IF Truthy(existing.passportNumber) THEN existing.name
               ELSE IF Truthy(item.passportNumber) THEN item.name
               ELSE existing.name]_vars
  /\ [](\A k \in DOMAIN passengers :
          PassportSources(k) # {} =>
            passengers[k].name = dataArray[SetMin(PassportSources(k))].name)

\* C7 witness: a passenger of three records with three different names, the
\* first without and the second with a passport number, now named as the
\* second.
C7_Witness ==
  \E k \in DOMAIN passengers :
    /\ Len(sources[k]) = 3
    /\ ~Truthy(dataArray[sources[k][1]].passportNumber)
    /\ Truthy(dataArray[sources[k][2]].passportNumber)
    /\ dataArray[sources[k][1]].name # dataArray[sources[k][2]].name
    /\ dataArray[sources[k][3]].name # dataArray[sources[k][2]].name
    /\ dataArray[sources[k][3]].name # dataArray[sources[k][1]].name
    /\ passengers[k].name = dataArray[sources[k][2]].name

\* passenger p is a candidate of the name fallback for item: their trimmed
\* passport numbers are not both non-empty and different, and the names match
FallbackCandidate(p, item) ==
  /\ ~(/\ Truthy(OptTrim(item.passportNumber))
       /\ Truthy(OptTrim(p.passportNumber))
       /\ OptTrim(item.passportNumber) # OptTrim(p.passportNumber))
  /\ Truthy(p.name)
  /\ namesMatch(p.name, item.name)

\* C8: a record that no passenger matches by passport number and that
\* several passengers match by name is merged into the one of them with
\* the lowest index.
C8_FirstNameCandidateWins ==
  [][Visited =>
       LET item == dataArray'[Len(dataArray')]
           itemPassport == OptTrim(item.passportNumber)
           candidates == {k \in DOMAIN passengers :
                            FallbackCandidate(passengers[k], item)}
       IN (/\ \A k \in DOMAIN passengers :
                ~(Truthy(itemPassport)
                  /\ OptTrim(passengers[k].passportNumber) = itemPassport)
           /\ Truthy(OptTrim(item.name))
           /\ candidates # {})
          => /\ merged' = SetMin(candidates)
             /\ Len(sources'[SetMin(candidates)])
                  = Len(sources[SetMin(candidates)]) + 1
             /\ \A h \in DOMAIN passengers :
                  h # SetMin(candidates) => passengers'[h] = passengers[h]]_vars

\* C8 witness: the last record, without passport number, went into the
\* first passenger although the second passenger, untouched by the merge,
\* has exactly the record's normalized name and the first passenger was
\* created under another one.
C8_Witness ==
  /\ merged = 1
  /\ Len(passengers) >= 2
  /\ ~Truthy(OptTrim(LastItem.passportNumber))
  /\ normalizeName(passengers[2].name) = normalizeName(LastItem.name)
  /\ FallbackCandidate(passengers[2], LastItem)
  /\ normalizeName(dataArray[sources[1][1]].name) # normalizeName(LastItem.name)
  /\ normalizeName(passengers[1].name) # normalizeName(LastItem.name)

\* C9: the passengers stand in the order of their first contributing
\* records; a visit either leaves the number and the positions of the
\* passengers alone, changing at most the one merged into, or appends the
\* visited record as the last passenger.
C9_StableInsertionOrder ==
  /\ [](/\ Len(sources) = Len(passengers)
        /\ \A k \in DOMAIN sources : \A l \in DOMAIN sources :
             k < l => sources[k][1] < sources[l][1])
  /\ [][Visited =>
          \/ /\ merged' # 0
             /\ Len(passengers') = Len(passengers)
             /\ \A h \in DOMAIN passengers :
                  h # merged' => passengers'[h] = passengers[h]
             /\ \A h \in DOMAIN sources : sources'[h][1] = sources[h][1]
          \/ /\ merged' = 0
             /\ passengers' = Append(passengers, dataArray'[Len(dataArray')])
             /\ sources' = Append(sources, <<Len(dataArray')>>)]_vars

\* C9 witness: with two passengers present, the third record was merged
\* into the first one, which is still in front.
C9_Witness ==
  /\ Len(dataArray) = 3
  /\ Len(passengers) = 2
  /\ merged = 1
  /\ sources = <<<<1, 3>>, <<2>>>>

\* C10: consolidateData never throws.
C10_NeverThrows == ~threw

----------------------------------------------------------------------------
(* Properties of normalizeName and namesMatch *)

\* the words of a name: lower case, letters only, titles included
WordsOf(name) ==
  IF ~Truthy(name) THEN <<>>
  ELSE NonEmptyWords(
         Trim(CollapseSpaces(StripNonLetters(ToLowerCase(cleanName(name))))))

Occurrences(w, words) == Cardinality({k \in DOMAIN words : words[k] = w})

\* the same two or more words in a different order
SameWordsOtherOrder(words1, words2) ==
  /\ Len(words1) >= 2
  /\ Len(words1) = Len(words2)
  /\ \A w \in Range(words1) \cup Range(words2) :
       Occurrences(w, words1) = Occurrences(w, words2)
  /\ words1 # words2

\* C11: namesMatch returns true for two names made of the same two or more
\* words in a different order, and consolidateData makes one passenger of
\* the two passport-less records that carry them.
C11_WordOrderIgnored ==
  SameWordsOtherOrder(WordsOf(name1), WordsOf(name2)) =>
    /\ compared => matched
    /\ dataArray # <<>> => Len(passengers) = 1

\* C12: namesMatch returns false for two names whose normalized forms
\* differ and that have fewer than two distinct words in common.
C12_OneCommonWordNeverMatches ==
  (/\ compared
   /\ normalized1 # normalized2
   /\ Cardinality(Range(NonEmptyWords(normalized1))
                    \cap Range(NonEmptyWords(normalized2))) < 2)
  => ~matched

\* a name that is empty, absent, or has no word besides titles
NamesNothing(name) ==
  \A k \in DOMAIN WordsOf(name) : WordsOf(name)[k] \in honorifics

\* C13: namesMatch returns false when either name is empty, absent or
\* normalizes to nothing, and consolidateData does not merge the two
\* passport-less records that carry such names.
C13_EmptyNameNeverMatches ==
  (NamesNothing(name1) \/ NamesNothing(name2)) =>
    /\ compared => ~matched
    /\ dataArray # <<>> => (Len(passengers) = 2 /\ merged = 0)

\* C13 witness: namesMatch and consolidateData were applied to two names
\* that both normalize to nothing, one a title and one digits only, and the
\* two records are two passengers.
C13_Witness ==
  /\ compared
  /\ name1 = NameMr
  /\ name2 = NameDigits
  /\ normalized1 = EmptyStr
  /\ normalized2 = EmptyStr
  /\ ~matched
  /\ Len(passengers) = 2

\* C14: no normalized name contains one of the titles as a word.
C14_NoHonorificInNormalizedName ==
  compared =>
    /\ \A k \in DOMAIN NonEmptyWords(normalized1) :
         NonEmptyWords(normalized1)[k] \notin honorifics
    /\ \A k \in DOMAIN NonEmptyWords(normalized2) :
         NonEmptyWords(normalized2)[k] \notin honorifics

\* the call of handleProcess at position r of runs returns in this step
RunEnds(r) == r \in DOMAIN runs /\ runs' = RemoveAt(runs, r)

\* consolidateData is called in this step
Consolidates == consolidations' = consolidations + 1

\* C15: a failure of the OCR call for one document does not abort the
\* other documents: when a run ends with the return of an OCR call, every
\* document of the run was sent and the records collected from earlier
\* documents are consolidated.
C15_FailureDoesNotAbort ==
  [][\A r \in DOMAIN runs :
       (RunEnds(r) /\ runs[r].stage = "invoking") =>
         /\ Len(runs[r].sent) = Len(runs[r].files)
         /\ runs[r].newData # <<>> => Consolidates]_vars

\* the OCR calls that have not returned
Outstanding == {r \in DOMAIN runs : runs[r].stage = "invoking"}

\* C16: at most one OCR call is outstanding at any time, a document is sent
\* only when no call is outstanding, no run starts while one is in
\* progress, consolidateData is called only when the last OCR call of a
\* run returns, and every run calls it exactly once.
C16_SequentialCallsOneConsolidation ==
  /\ [](Cardinality(Outstanding) <= 1 /\ Len(runs) <= 1)
  /\ [][/\ \A r \in DOMAIN runs :
             (r \in DOMAIN runs' /\ Len(runs'[r].sent) > Len(runs[r].sent))
               => Outstanding = {}
        /\ started' # started => (runs = <<>> /\ ~isProcessing)
        /\ Consolidates =>
             \E r \in DOMAIN runs :
               /\ RunEnds(r)
               /\ runs[r].stage = "invoking"
               /\ Len(runs[r].sent) = Len(runs[r].files)
        /\ consolidations' \in {consolidations, consolidations + 1}
        /\ \A r \in DOMAIN runs : RunEnds(r) => Consolidates]_vars

\* the formats the upload accepts according to README.md 13
SupportedFormats == {MimeJpeg, MimePng, MimeWebp}

\* C19: every file held in the upload lists, and every file sent to the OCR
\* service, is a JPG, PNG or WEBP image.
C19_OnlySupportedImages ==
  /\ \A type \in Range(DocumentTypes) : \A k \in DOMAIN filesByType[type] :
       filesByType[type][k].type \in SupportedFormats
  /\ \A r \in DOMAIN runs : \A k \in DOMAIN runs[r].sent :
       runs[r].sent[k].file.type \in SupportedFormats

\* the value has a character that makes a CSV cell need quotes
NeedsQuotes(value) ==
  Truthy(value) /\
    (Includes(value, ",") \/ Includes(value, "\"") \/ Includes(value, "\n"))

\* the separators of cells and records
Separators == {",", "\n"}

\* the first position from i on that holds a separator, or the position
\* after the text
NextSeparator(text, i) ==
  IF \E j \in i..Len(text) : text[j] \in Separators
  THEN CHOOSE j \in i..Len(text) :
         /\ text[j] \in Separators
         /\ \A k \in i..(j - 1) : text[k] \notin Separators
  ELSE Len(text) + 1

\* position j closes the quoted cell that opened at position i: it holds a
\* quote that is not the first or second half of a doubled quote
ClosesQuote(text, i, j) ==
  /\ text[j] = "\""
  /\ Cardinality({k \in (i + 1)..j : text[k] = "\""}) % 2 = 1
  /\ j = Len(text) \/ text[j + 1] # "\""

\* the position after the cell that starts at position i: a cell that
\* starts with a double quote runs to the separator after its closing
\* quote, any other cell to the next separator
CellEnd(text, i) ==
  IF i <= Len(text) /\ text[i] = "\""
  THEN IF \E j \in (i + 1)..Len(text) : ClosesQuote(text, i, j)
       THEN NextSeparator(text,
              CHOOSE j \in (i + 1)..Len(text) :
                /\ ClosesQuote(text, i, j)
                /\ \A k \in (i + 1)..(j - 1) : ~ClosesQuote(text, i, k))
       ELSE Len(text) + 1
  ELSE NextSeparator(text, i)

\* the number of columns of each record of a CSV text that holds a cell
\* from position i on, after cols - 1 cells of the record and the records
\* of rows
RECURSIVE CsvScan(_, _, _, _)
CsvScan(text, i, cols, rows) ==
  LET end == CellEnd(text, i)
  IN IF end > Len(text) THEN Append(rows, cols)
     ELSE IF text[end] = "," THEN CsvScan(text, end + 1, cols + 1, rows)
     ELSE CsvScan(text, end + 1, 1, Append(rows, cols))

CsvColumns(text) == CsvScan(text, 1, 1, <<>>)

\* value in double quotes with its quotes doubled
InQuotes(value) == <<"\"">> \o DoubleQuotes(value) \o <<"\"">>

\* C17: in the exported CSV every value with a comma, a double quote or a
\* newline is in double quotes with its quotes doubled, in the date columns
\* after the = of the literal-text marker, and the header and every data
\* row parse to 15 columns.
C17_EveryRowHasHeaderColumns ==
  csvData # UNDEFINED =>
    /\ \A r \in DOMAIN cells : \A k \in DOMAIN cells[r] :
         NeedsQuotes(cells[r][k].value) =>
           cells[r][k].cell =
             IF Columns[k] \in DateColumns
             THEN <<"=">> \o InQuotes(cells[r][k].value)
             ELSE InQuotes(cells[r][k].value)
    /\ CsvColumns(csvData) = [r \in 1..(Len(extractedData) + 1) |-> 15]

\* C18: formatDate returns a string for every input, the empty string only
\* for an absent or empty input, the input itself when it has the form
\* DD-MMM-YYYY, and the input itself when new Date gives Invalid Date.
C18_FormatDateKeepsInput ==
  formatDone =>
    /\ IsString(formatted)
    /\ formatted = EmptyStr => ~Truthy(dateValue)
    /\ (Truthy(dateValue) /\ IsCanonical(dateValue)) => formatted = dateValue
    /\ (Truthy(dateValue) /\ ~date.valid) => formatted = dateValue

\* C18 witness: formatDate was applied to a string that is no date and
\* returned it.
C18_Witness ==
  /\ formatDone
  /\ dateValue = DateUnreadable
  /\ ~date.valid
  /\ formatted = DateUnreadable

\* C20: no two passengers have the same non-empty trimmed passport number.
C20_PassportNumbersUnique ==
  \A i \in DOMAIN passengers : \A j \in DOMAIN passengers :
    (i < j /\ Truthy(OptTrim(passengers[i].passportNumber))) =>
      OptTrim(passengers[i].passportNumber)
        # OptTrim(passengers[j].passportNumber)

\* C20 witness: a record with another name and the passport number P1 was
\* merged into the passenger whose passport number is stored as P1 with a
\* trailing blank, and the other passenger has the passport number P2.
C20_Witness ==
  /\ Len(dataArray) = 3
  /\ Len(passengers) = 2
  /\ merged = 1
  /\ dataArray[3].name = NameAlCy
  /\ dataArray[3].passportNumber = PassportP1
  /\ passengers[1].passportNumber = PassportP1Blank
  /\ passengers[2].passportNumber = PassportP2

\* the record has neither a name nor a passport number: both are missing
\* or empty after trimming
BlankRecord(r) ==
  /\ r.name # JsNumber
  /\ r.passportNumber # JsNumber
  /\ ~Truthy(OptTrim(r.name))
  /\ ~Truthy(OptTrim(r.passportNumber))

\* C21: a visited record with neither a passport number nor a name is
\* pushed as a new passenger (the callback does not throw), and no record
\* is ever merged into a passenger that has neither.
C21_BlankRecordStaysAlone ==
  [][dataArray' # dataArray =>
       LET item == dataArray'[Len(dataArray')]
       IN /\ BlankRecord(item) =>
               /\ ~threw'
               /\ merged' = 0
               /\ passengers' = Append(passengers, item)
          /\ merged' # 0 => ~BlankRecord(passengers[merged'])]_vars

\* C21 witness: a record whose name and passport number hold only blanks
\* became the first passenger, and the two records visited after it, one
\* with neither and one with both, became passengers of their own.
C21_Witness ==
  /\ Len(dataArray) = 3
  /\ dataArray[1] = Record(NameBlank, PassportBlank, "blank")
  /\ dataArray[2] = Record(EmptyStr, EmptyStr, "blank")
  /\ dataArray[3] = Record(NameAlBo, PassportP1, "blank")
  /\ Len(passengers) = 3
  /\ passengers[1] = dataArray[1]
  /\ passengers[2] = dataArray[2]

\* the two records of NamePair in the other order
NamePairReversed ==
  <<Record(name2, EmptyStr, "blank"), Record(name1, EmptyStr, "blank")>>

\* C22: namesMatch gives the same for two names in either order, and the
\* two passport-less records that carry the names are merged in either
\* order or in neither.
C22_NamesMatchSymmetric ==
  compared =>
    /\ matched = namesMatch(name2, name1)
    /\ dataArray # <<>> =>
         Len(passengers) = Len(consolidateData(NamePairReversed).passengers)

\* C23: a passenger has a non-empty name whenever one of its contributing
\* records has a non-empty name.
C23_NamedWhenAnySourceNamed ==
  \A k \in DOMAIN passengers :
    NonEmptySources(k, "name") # {} => Truthy(passengers[k].name)

\* the passengers the record at position i of dataArray contributed to
ContributesTo(i) == {k \in DOMAIN sources : i \in Range(sources[k])}

\* C24: when consolidateData returns, every input record contributes to
\* exactly one passenger, there is one passenger for each record that
\* matched no passenger when it was visited and none for the others, so
\* there are at most as many passengers as records and none only for an
\* empty input.
C24_PartitionsInput ==
  /\ [](~threw =>
          /\ \A i \in DOMAIN dataArray : Cardinality(ContributesTo(i)) = 1
          /\ \A k \in DOMAIN sources : Range(sources[k]) \subseteq DOMAIN dataArray
          /\ DOMAIN passengers = DOMAIN sources
          /\ Len(passengers) <= Len(dataArray)
          /\ passengers = <<>> <=> dataArray = <<>>)
  /\ [][Visited =>
          Len(passengers') =
            IF ExistingIndex(passengers, dataArray'[Len(dataArray')]) = 0
            THEN Len(passengers) + 1
            ELSE Len(passengers)]_vars

\* C24 witness: three records were visited, the first and the second
\* became passengers and the third was merged into the first.
C24_Witness ==
  /\ ~threw
  /\ Len(dataArray) = 3
  /\ Len(passengers) = 2
  /\ sources = <<<<1, 3>>, <<2>>>>

\* C25: consolidateData leaves its argument alone: in every step the array
\* holds the same objects and each of them the same field values, whatever
\* is merged into the passengers.
C25_InputUntouched ==
  [][/\ inputList' = inputList
     /\ \A k \in DOMAIN inputList :
          objects'[inputList[k]] = objects[inputList[k]]]_vars

\* C25 witness: the second record was merged into the passenger that was
\* copied from the first, and the passenger now differs from the first
\* record.
C25_Witness ==
  /\ visitedCount = 2
  /\ Len(passengerList) = 1
  /\ objects[passengerList[1]] # objects[inputList[1]]
  /\ objects[inputList[1]] = Record(NameAlBo, PassportP1, "yOdd")

\* C26: the step in which an OCR call returns an error ends the run, so
\* that it sends nothing more, calls consolidateData not at all, leaves
\* extractedData as it was when the run began and isProcessing false; and
\* every step that ends a run leaves isProcessing false.
C26_ErrorEndsRunCleanly ==
  [][/\ failures' # failures =>
          \E r \in DOMAIN runs :
            /\ RunEnds(r)
            /\ Len(runs[r].sent) = runs[r].pos
            /\ consolidations' = consolidations
            /\ extractedData' = runs[r].shown
            /\ isProcessing' = FALSE
     /\ \A r \in DOMAIN runs : RunEnds(r) => isProcessing' = FALSE]_vars

\* C26 witness: the only run so far ended on an OCR error: nothing was
\* consolidated, nothing is shown and the page is not processing.
C26_Witness ==
  /\ started = 1
  /\ failures = 1
  /\ consolidations = 0
  /\ runs = <<>>
  /\ extractedData = <<>>
  /\ ~isProcessing

\* the data of an OCR call carries extractedData
HasRecord(data) == data # UNDEFINED

\* list is seq with one element left out
OneRemoved(seq, list) == \E index \in DOMAIN seq : list = RemoveAt(seq, index)

\* list is seq with elements added at its end
Extended(seq, list) ==
  Len(list) > Len(seq) /\ SubSeq(list, 1, Len(seq)) = seq

\* C30: an upload list changes only by files added at its end or by one
\* file taken out; a run takes the passport files, then the visa files,
\* then the flight files, each list in its order; it sends them in that
\* order, its newData holds the records of the replies in that order, only
\* the replies without extractedData left out, and that is what
\* consolidateData is called with.
C30_SendsInUploadOrder ==
  /\ [](\A r \in DOMAIN runs :
          /\ runs[r].sent = SubSeq(runs[r].files, 1, Len(runs[r].sent))
          /\ Len(runs[r].replies) = runs[r].pos - 1
          /\ runs[r].newData = SelectSeq(runs[r].replies, HasRecord))
  /\ [][/\ \A type \in Range(DocumentTypes) :
             \/ filesByType'[type] = filesByType[type]
             \/ Extended(filesByType[type], filesByType'[type])
             \/ OneRemoved(filesByType[type], filesByType'[type])
        /\ started' # started =>
             LET files == runs'[Len(runs')].files
             IN /\ [k \in DOMAIN files |-> files[k].file] =
                     filesByType.passport \o filesByType.visa
                       \o filesByType.flight
                /\ \A k \in DOMAIN files :
                     files[k].type =
                       IF k <= Len(filesByType.passport) THEN "passport"
                       ELSE IF k <= Len(filesByType.passport)
                                      + Len(filesByType.visa)
                            THEN "visa"
                       ELSE "flight"
        /\ Consolidates =>
             \E r \in DOMAIN runs : \E data \in OcrData :
               /\ RunEnds(r)
               /\ runs[r].sent = runs[r].files
               /\ extractedData' =
                    consolidateData(
                      SelectSeq(Append(runs[r].replies, data), HasRecord)
                    ).passengers]_vars

\* C30 witness: the gif was dropped on the passport list after the jpg was
\* dropped on the visa list; the run sent the gif first, whose reply had no
\* extractedData, then the jpg, and holds the record of the jpg's reply.
C30_Witness ==
  /\ Len(runs) = 1
  /\ Len(runs[1].files) = 2
  /\ runs[1].sent = runs[1].files
  /\ runs[1].files[1].type = "passport"
  /\ runs[1].files[1].file.type = MimeGif
  /\ runs[1].files[2].type = "visa"
  /\ runs[1].files[2].file.type = MimeJpeg
  /\ runs[1].replies = <<UNDEFINED>>
  /\ runs[1].stage = "invoking"

\* the AI gateway answered with a non-success status, a body that is not
\* JSON, no content, or a content that is not JSON
GatewayFailed ==
  /\ gateway.fetch = "answered"
  /\ \/ ~gateway.ok
     \/ ~gateway.bodyIsJson
     \/ ~Truthy(gateway.content)
     \/ JsonParse(StripFences(gateway.content)).threw

\* C27: the handler always returns a Response, with status 200 or 500, and
\* for a non-success gateway status, an empty reply and an unparsable
\* reply the Response has status 500 and a body with an error message and
\* without extractedData.
C27_FailuresAnswered500 ==
  serverStage = "done" =>
    /\ response.status \in {200, 500}
    /\ GatewayFailed =>
         /\ response.status = 500
         /\ DOMAIN response.body = {"error"}
         /\ IsString(response.body.error)
         /\ response.body.error # EmptyStr

\* C27 witness: the AI answered in prose and the handler returned 500 with
\* the message of the parse failure.
C27_Witness ==
  /\ serverStage = "done"
  /\ gateway.content = ContentProse
  /\ response = ErrorResponse(MessageParse)

\* C28: in every Response with status 200 each of the nine fields of the
\* record is present and is a string.
C28_SuccessFieldsAreStrings ==
  (serverStage = "done" /\ response.status = 200) =>
    \A f \in AiKeys :
      /\ f \in DOMAIN response.body.extractedData
      /\ IsString(response.body.extractedData[f])

\* the documentType the handler gives a document of a category
DocumentTypeOfCategory(type) ==
  CASE type = "passport" -> DocPassport
    [] type = "visa" -> DocVisa
    [] type = "flight" -> DocFlight

\* C29: the handler chooses the prompt and the documentType of the
\* category the file was uploaded under.
C29_ExtractedAsItsCategory ==
  serverStage = "fetching" =>
    /\ chosen.prompt = request.documentType
    /\ chosen.documentType = DocumentTypeOfCategory(request.documentType)

====
